---- MODULE Spec2Model ----
(***************************************************************************)
(* A model of app.py, the phone number processor: the cell normalizers     *)
(* (clean_phone_number, clean_name_capitalization), the filename builders, *)
(* the batcher (create_slybroadcast_files) and the pipeline                *)
(* (process_phone_data).                                                   *)
(*                                                                         *)
(* A Python str is a sequence of one-character strings: "Mc" is            *)
(* <<"M", "c">>.  A Python number is kept by its sign and its decimal      *)
(* digits (a sequence over 0..9), since an 11-digit phone number does not  *)
(* fit the model checker's integers.                                       *)
(***************************************************************************)
EXTENDS Integers, Sequences, FiniteSets, TLC

VARIABLES
    \* clean_phone_number: its argument and what it returned
    phone, phone_result,
    \* clean_name_capitalization: its argument x, f(x) and f(f(x))
    name, name_once, name_twice,
    \* what both filename builders and the batcher read: the reference code the
    \* user typed and the date datetime.now() gives
    property_reference_code, today,
    \* generate_roor_ready_filename, generate_slybroadcast_filename: the group
    \* letter passed and the names returned
    letter_arg, roor_filename, sly_filename,
    \* create_slybroadcast_files: its argument, the loop variable i (the start
    \* of the next batch), the locals of the last iteration, the dict it builds
    \* and whether it has returned
    phone_numbers, loop_i, group_index, group_letter, files_created, returned,
    \* process_phone_data: its argument df, the tables it builds, where it is
    \* (pc) and the table it returned to main
    df, df_filtered, df_selected, stacked_df, mobile_df, final_df, pc, processed_df,
    \* main: where the run is (main_pc), the st.error messages shown, the table
    \* of the Roor-Ready download and processed_df['Phone'].tolist()
    main_pc, errors, roor_ready_df, processed_phones

phoneVars == <<phone, phone_result>>
nameVars  == <<name, name_once, name_twice>>
envVars   == <<property_reference_code, today>>
fileVars  == <<letter_arg, roor_filename, sly_filename>>
batchVars == <<phone_numbers, loop_i, group_index, group_letter, files_created, returned>>
pipeVars == <<df, df_filtered, df_selected, stacked_df, mobile_df, final_df, pc, processed_df>>
mainVars == <<main_pc, errors, roor_ready_df, processed_phones>>
vars == <<phoneVars, nameVars, envVars, fileVars, batchVars, pipeVars, mainVars>>

\* The value of a variable that holds nothing yet.
Pending == <<"<pending>">>

(***************************************************************************)
(* Characters and strings                                                  *)
(***************************************************************************)
AsciiDigits == <<"0", "1", "2", "3", "4", "5", "6", "7", "8", "9">>
Lowercase == <<"a", "b", "c", "d", "e", "f", "g", "h", "i", "j", "k", "l", "m",
               "n", "o", "p", "q", "r", "s", "t", "u", "v", "w", "x", "y", "z">>
Uppercase == <<"A", "B", "C", "D", "E", "F", "G", "H", "I", "J", "K", "L", "M",
               "N", "O", "P", "Q", "R", "S", "T", "U", "V", "W", "X", "Y", "Z">>

Range(f) == {f[i] : i \in DOMAIN f}
IndexOf(f, x) == CHOOSE i \in DOMAIN f : f[i] = x

\* A decimal digit that is not ASCII: ARABIC-INDIC DIGIT THREE, U+0663.
ArabicThree == "U+0663"

\* re's \d on a str pattern: any Unicode decimal digit, not only 0-9.
IsDigit(c) == c \in Range(AsciiDigits) \cup {ArabicThree}
IsAsciiDigit(c) == c \in Range(AsciiDigits)
IsLower(c) == c \in Range(Lowercase)
IsUpper(c) == c \in Range(Uppercase)
\* str.isspace(): what str.strip() removes.
IsSpace(c) == c \in {" ", "\t"}

\* s * n
RECURSIVE Repeat(_, _)
Repeat(s, n) == IF n <= 0 THEN <<>> ELSE s \o Repeat(s, n - 1)

\* Every sequence over chars of length 0..n.
RECURSIVE SeqsUpTo(_, _)
SeqsUpTo(chars, n) ==
    IF n = 0 THEN {<<>>}
    ELSE LET shorter == SeqsUpTo(chars, n - 1)
         IN  shorter \cup {Append(s, c) : s \in {t \in shorter : Len(t) = n - 1}, c \in chars}

(***************************************************************************)
(* Python values: a cell of the table or an argument.  t is the type:      *)
(* "nan" (None, NaN: what pd.isna accepts), "str", "int", "float" (finite) *)
(* and "inf" (float infinity).  A number is sign neg, integer digits mag   *)
(* (no leading zero; zero is <<0>>) and fractional digits frac.            *)
(***************************************************************************)
PyNaN == [t |-> "nan", neg |-> FALSE, mag |-> <<>>, frac |-> <<>>, s |-> <<>>]
PyStr(s) == [t |-> "str", neg |-> FALSE, mag |-> <<>>, frac |-> <<>>, s |-> s]
PyInt(neg, mag) == [t |-> "int", neg |-> neg, mag |-> mag, frac |-> <<>>, s |-> <<>>]
PyFloat(neg, mag, frac) == [t |-> "float", neg |-> neg, mag |-> mag, frac |-> frac, s |-> <<>>]
PyInf(neg) == [t |-> "inf", neg |-> neg, mag |-> <<>>, frac |-> <<>>, s |-> <<>>]

\* What a call that raised returns in the model: int(float("inf")).
OverflowError == <<"OverflowError">>

pd_isna(v) == v.t = "nan"
pd_notna(v) == ~pd_isna(v)
\* v == "" and v != ""
IsEmptyStr(v) == v.t = "str" /\ v.s = <<>>
\* isinstance(v, (int, float))
IsNumber(v) == v.t \in {"int", "float", "inf"}

IsZero(mag) == \A i \in DOMAIN mag : mag[i] = 0
DigitChars(mag) == [i \in DOMAIN mag |-> AsciiDigits[mag[i] + 1]]
\* str(int(v)) of a finite number: the fraction is truncated away, and the sign
\* of a magnitude of zero with it (int(-0.5) is 0).
IntStr(v) == (IF v.neg /\ ~IsZero(v.mag) THEN <<"-">> ELSE <<>>) \o DigitChars(v.mag)
\* str(v).  repr of a float below 1e16 is positional and always has a fraction.
ToStr(v) ==
    CASE v.t = "str" -> v.s
      [] v.t = "int" -> (IF v.neg THEN <<"-">> ELSE <<>>) \o DigitChars(v.mag)
      [] v.t = "float" -> (IF v.neg THEN <<"-">> ELSE <<>>) \o DigitChars(v.mag) \o <<".">>
                            \o (IF v.frac = <<>> THEN <<"0">> ELSE DigitChars(v.frac))
      [] v.t = "inf" -> (IF v.neg THEN <<"-">> ELSE <<>>) \o <<"i", "n", "f">>
      [] v.t = "nan" -> <<"n", "a", "n">>

(***************************************************************************)
(* clean_phone_number                                                      *)
(***************************************************************************)
\* re.sub(r'\D', '', phone_str)
StripNonDigits(phone_str) == SelectSeq(phone_str, IsDigit)

\* The length rules on digits_only.
TenDigits(digits_only) ==
    IF Len(digits_only) = 10 THEN digits_only
    ELSE IF Len(digits_only) = 11 /\ Head(digits_only) = "1" THEN Tail(digits_only)
    ELSE IF Len(digits_only) = 11 /\ digits_only[11] = "0" THEN SubSeq(digits_only, 1, 10)
    ELSE <<>>

clean_phone_number(v) ==
    IF pd_isna(v) \/ IsEmptyStr(v) THEN <<>>
    ELSE IF v.t = "inf" THEN OverflowError
    ELSE LET phone_str == IF IsNumber(v) THEN IntStr(v) ELSE ToStr(v)
         IN  TenDigits(StripNonDigits(phone_str))

\* The arguments tried: strings and numbers of up to MaxFill fives between
\* every prefix and suffix of up to MaxAffix characters (digits), which gives
\* every length around 10 and 11, every first and last digit, and separators.
MaxFill == 10
MaxAffix == 2
PhoneChars == {"0", "1", "5", "-", ".", ArabicThree}
PhoneStrings ==
    {pre \o Repeat(<<"5">>, k) \o post :
        pre \in SeqsUpTo(PhoneChars, MaxAffix), post \in SeqsUpTo(PhoneChars, MaxAffix),
        k \in 0..MaxFill}
Magnitudes ==
    {IF pre \o post = <<>> /\ k = 0 THEN <<0>> ELSE pre \o Repeat(<<5>>, k) \o post :
        pre \in SeqsUpTo({1, 2}, 1), post \in SeqsUpTo({0, 1, 5}, 1), k \in 0..MaxFill}
Fractions == {<<>>, <<5>>, <<0, 5>>}
PhoneInputs ==
    {PyNaN, PyInf(FALSE), PyInf(TRUE)}
    \cup {PyStr(s) : s \in PhoneStrings}
    \cup {PyInt(neg, mag) : neg \in BOOLEAN, mag \in Magnitudes}
    \cup {PyFloat(neg, mag, frac) : neg \in BOOLEAN, mag \in Magnitudes, frac \in Fractions}

InitPhone == phone \in PhoneInputs /\ phone_result = Pending
IdlePhone == phone = PyNaN /\ phone_result = Pending

CleanPhone ==
    /\ phone_result = Pending
    /\ phone_result' = clean_phone_number(phone)
    /\ UNCHANGED <<phone, nameVars, envVars, fileVars, batchVars, pipeVars, mainVars>>

(***************************************************************************)
(* clean_name_capitalization                                               *)
(***************************************************************************)
ToUpper(c) == IF IsLower(c) THEN Uppercase[IndexOf(Lowercase, c)] ELSE c
ToLower(c) == IF IsUpper(c) THEN Lowercase[IndexOf(Uppercase, c)] ELSE c
\* A cased character, for str.title(): a letter.
IsCased(c) == IsLower(c) \/ IsUpper(c)
\* re's \w
IsWord(c) == IsCased(c) \/ IsDigit(c) \/ c = "_"

\* str.strip()
RECURSIVE LStrip(_)
LStrip(s) == IF s # <<>> /\ IsSpace(Head(s)) THEN LStrip(Tail(s)) ELSE s
RECURSIVE RStrip(_)
RStrip(s) == IF s # <<>> /\ IsSpace(s[Len(s)]) THEN RStrip(SubSeq(s, 1, Len(s) - 1)) ELSE s
Strip(s) == RStrip(LStrip(s))

\* str.title(): a character that follows a cased character is lowercased, any
\* other is titlecased.
TitleChar(s, i) == IF i > 1 /\ IsCased(s[i - 1]) THEN ToLower(s[i]) ELSE ToUpper(s[i])
\* Title with the test for "follows a cased character" narrowed to "follows a
\* lowercase character".
TitleAfterLowercase(s) ==
    [i \in DOMAIN s |-> IF i > 1 /\ IsLower(s[i - 1]) THEN ToLower(s[i]) ELSE ToUpper(s[i])]
Title(s) == [i \in DOMAIN s |-> TitleChar(s, i)]

\* re's \b before s[i]: exactly one of s[i-1] and s[i] is a word character.
AtWordBoundary(s, i) == (i > 1 /\ IsWord(s[i - 1])) # (i <= Len(s) /\ IsWord(s[i]))

\* re.sub(r"\b<a><b>([A-Z])", r"<a><b>\1", s) from position i on: a match is
\* replaced by the prefix and the letter it captured, and the scan goes on
\* after it.
RECURSIVE SubPrefix(_, _, _, _)
SubPrefix(a, b, s, i) ==
    IF i > Len(s) THEN <<>>
    ELSE IF /\ i + 2 <= Len(s)
            /\ AtWordBoundary(s, i)
            /\ s[i] = a /\ s[i + 1] = b /\ IsUpper(s[i + 2])
         THEN <<a, b, s[i + 2]>> \o SubPrefix(a, b, s, i + 3)
         ELSE <<s[i]>> \o SubPrefix(a, b, s, i + 1)

clean_name_capitalization(v) ==
    IF pd_isna(v) \/ IsEmptyStr(v) \/ Strip(ToStr(v)) = <<>> THEN <<>>
    ELSE LET titled == Title(Strip(ToStr(v)))
             mc == SubPrefix("M", "c", titled, 1)
         IN  SubPrefix("O", "'", mc, 1)

mcdonald == <<"m", "c", "d", "o", "n", "a", "l", "d">>
McDonald == <<"M", "c", "D", "o", "n", "a", "l", "d">>
Mcdonald == <<"M", "c", "d", "o", "n", "a", "l", "d">>
obrien == <<"o", "'", "b", "r", "i", "e", "n">>
OBrien == <<"O", "'", "B", "r", "i", "e", "n">>

\* The arguments tried: every string of up to MaxNameLen of these characters,
\* the names the specification gives, and a missing value.
MaxNameLen == 4
NameChars == {"m", "c", "d", "o", "M", "C", "O", "'", " ", "3"}
NameInputs ==
    {PyNaN, PyStr(mcdonald), PyStr(obrien), PyStr(<<" ">> \o McDonald \o <<"\t">>)}
    \cup {PyStr(s) : s \in SeqsUpTo(NameChars, MaxNameLen)}

InitName == name \in NameInputs /\ name_once = Pending /\ name_twice = Pending
IdleName == name = PyNaN /\ name_once = Pending /\ name_twice = Pending

\* f(x)
Normalize ==
    /\ name_once = Pending
    /\ name_once' = clean_name_capitalization(name)
    /\ UNCHANGED <<name, name_twice, phoneVars, envVars, fileVars, batchVars, pipeVars, mainVars>>

\* f(f(x))
Renormalize ==
    /\ name_once # Pending /\ name_twice = Pending
    /\ name_twice' = clean_name_capitalization(PyStr(name_once))
    /\ UNCHANGED <<name, name_once, phoneVars, envVars, fileVars, batchVars, pipeVars, mainVars>>

(***************************************************************************)
(* generate_roor_ready_filename, generate_slybroadcast_filename            *)
(***************************************************************************)
\* The n low decimal digits of k, zero-padded: strftime's %Y (4), %m and %d (2).
RECURSIVE ZeroPad(_, _)
ZeroPad(k, n) == IF n = 0 THEN <<>> ELSE ZeroPad(k \div 10, n - 1) \o <<AsciiDigits[(k % 10) + 1]>>

\* datetime.now().strftime("%Y%m%d")
date_str(now) == ZeroPad(now.year, 4) \o ZeroPad(now.month, 2) \o ZeroPad(now.day, 2)

\* The character class of re.sub(r'[<>:"/\\|?*]', '', ...)
InvalidChars == {"<", ">", ":", "\"", "/", "\\", "|", "?", "*"}
\* The class with the backslash lost to the escape of the bar.
RemoveInvalidKeepsBackslash(code) == SelectSeq(code, LAMBDA c : c \notin InvalidChars \ {"\\"})
RemoveInvalid(code) == SelectSeq(code, LAMBDA c : c \notin InvalidChars)
\* str.replace(' ', '_')
ReplaceSpaces(code) == [i \in DOMAIN code |-> IF code[i] = " " THEN "_" ELSE code[i]]

clean_code(code) == ReplaceSpaces(RemoveInvalid(code))

RoorSuffix == <<"_", "R", "o", "o", "r", "-", "R", "e", "a", "d", "y", ".", "c", "s", "v">>
SlyInfix == <<"_", "S", "l", "y", "b", "r", "o", "a", "d", "c", "a", "s", "t", "-",
              "R", "e", "a", "d", "y", "_", "G", "r", "o", "u", "p">>
CsvSuffix == <<".", "c", "s", "v">>

generate_roor_ready_filename(code, now) ==
    date_str(now) \o <<"_">> \o clean_code(code) \o RoorSuffix

generate_slybroadcast_filename(code, letter, now) ==
    date_str(now) \o <<"_">> \o clean_code(code) \o SlyInfix \o letter \o CsvSuffix

\* The reference codes tried: every string of up to MaxCodeLen of the invalid
\* characters, a space and three others, and the specification's example.
MaxCodeLen == 2
CodeChars == InvalidChars \cup {" ", "T", "_", "-"}
TXVanZandt == <<"T", "X", " ", "V", "a", "n", "Z", "a", "n", "d", "t", "/", "2", "0", "2", "5">>
CodeInputs == SeqsUpTo(CodeChars, MaxCodeLen) \cup {TXVanZandt}
Dates == {[year |-> 2025, month |-> 1, day |-> 5], [year |-> 2026, month |-> 11, day |-> 3],
          [year |-> 2031, month |-> 12, day |-> 31]}
LetterInputs == {<<"A">>, <<"Z">>, <<"A", "B">>}

InitEnv == property_reference_code \in CodeInputs /\ today \in Dates
IdleEnv == property_reference_code = <<>> /\ today = [year |-> 2025, month |-> 1, day |-> 5]
InitFile == letter_arg \in LetterInputs /\ roor_filename = Pending /\ sly_filename = Pending
IdleFile == letter_arg = <<>> /\ roor_filename = Pending /\ sly_filename = Pending

GenerateRoor ==
    /\ roor_filename = Pending
    /\ roor_filename' = generate_roor_ready_filename(property_reference_code, today)
    /\ UNCHANGED <<letter_arg, sly_filename, phoneVars, nameVars, envVars, batchVars, pipeVars, mainVars>>

GenerateSly ==
    /\ sly_filename = Pending
    /\ sly_filename' = generate_slybroadcast_filename(property_reference_code, letter_arg, today)
    /\ UNCHANGED <<letter_arg, roor_filename, phoneVars, nameVars, envVars, batchVars, pipeVars, mainVars>>

(***************************************************************************)
(* Lists of phone numbers.  A list is kept run-length encoded: a sequence  *)
(* of runs [v |-> value, n |-> count], n > 0, neighbouring runs of         *)
(* different values, so that equal lists are equal sequences of runs.      *)
(* <<[v |-> a, n |-> 2], [v |-> b, n |-> 1]>> is the list [a, a, b].       *)
(***************************************************************************)
Run(v, n) == [v |-> v, n |-> n]
\* len(l)
RECURSIVE ListLen(_)
ListLen(l) == IF l = <<>> THEN 0 ELSE Head(l).n + ListLen(Tail(l))
\* a + b
ListCat(a, b) ==
    IF a = <<>> THEN b
    ELSE IF b = <<>> THEN a
    ELSE IF a[Len(a)].v = b[1].v
         THEN SubSeq(a, 1, Len(a) - 1) \o <<Run(b[1].v, a[Len(a)].n + b[1].n)>> \o Tail(b)
         ELSE a \o b
\* l[:k]
RECURSIVE ListTake(_, _)
ListTake(l, k) ==
    IF k <= 0 \/ l = <<>> THEN <<>>
    ELSE IF Head(l).n >= k THEN <<Run(Head(l).v, k)>>
    ELSE <<Head(l)>> \o ListTake(Tail(l), k - Head(l).n)
\* l[k:]
RECURSIVE ListDrop(_, _)
ListDrop(l, k) ==
    IF k <= 0 \/ l = <<>> THEN l
    ELSE IF Head(l).n > k THEN <<Run(Head(l).v, Head(l).n - k)>> \o Tail(l)
    ELSE ListDrop(Tail(l), k - Head(l).n)
\* l[from:to]
Slice(l, from, to) == ListTake(ListDrop(l, from), to - from)
\* [n copies of v]
Copies(v, n) == IF n <= 0 THEN <<>> ELSE <<Run(v, n)>>

(***************************************************************************)
(* add_test_numbers_to_slybroadcast, create_slybroadcast_files             *)
(***************************************************************************)
batch_size == 250

\* chr(code), for the codes from 65 ("A") to 95 ("_").
CharsFrom65 == Uppercase \o <<"[", "\\", "]", "^", "_">>
chr(code) == CharsFrom65[code - 64]

\* The group letter with the offset of 26 forgotten in the first letter.
GroupLetterNoOffset(index) ==
    IF index < 26 THEN <<chr(65 + index)>>
    ELSE <<chr(65 + (index \div 26)), chr(65 + ((index - 26) % 26))>>
\* The group letter of the batch with this group_index.
GroupLetter(index) ==
    IF index < 26 THEN <<chr(65 + index)>>
    ELSE LET first_letter_index == (index - 26) \div 26
             second_letter_index == (index - 26) % 26
         IN  <<chr(65 + first_letter_index), chr(65 + second_letter_index)>>

\* The slice one short: phone_numbers[i:i + batch_size - 1].
BatchAtShort(numbers, i) == Slice(numbers, i, i + batch_size - 1)
\* phone_numbers[i:i + batch_size]
BatchAt(numbers, i) == Slice(numbers, i, i + batch_size)

\* pd.DataFrame(batch, columns=['Phone']).to_csv(index=False, header=False):
\* one line per number, the number and a line feed.
to_csv(batch) == [k \in DOMAIN batch |-> Run(batch[k].v \o <<"\n">>, batch[k].n)]

\* d[key] = value on a dict kept as its items in insertion order: a key the
\* dict has keeps its place and takes the new value.
DictSet(d, key, value) ==
    IF \E k \in DOMAIN d : d[k].filename = key
    THEN [k \in DOMAIN d |-> IF d[k].filename = key
                             THEN [filename |-> key, csv_content |-> value] ELSE d[k]]
    ELSE Append(d, [filename |-> key, csv_content |-> value])

\* The lists tried: up to MaxEdge of one number, then up to MaxMid of a second,
\* then up to MaxEdge of a third (every length from 0 to past two full
\* batches), and one list that needs MaxBatches batches.
MaxEdge == 2
MaxMid == 600
MaxBatches == 703
PhoneA == <<"2", "1", "4", "2", "6", "4", "5", "0", "3", "3">>
PhoneB == <<"3", "3", "6", "4", "0", "2", "4", "9", "6", "2">>
PhoneC == <<"9", "7", "2", "5", "5", "5", "0", "1", "4", "7">>
ListInputs ==
    {ListCat(ListCat(Copies(PhoneA, j), Copies(PhoneB, k)), Copies(PhoneC, l)) :
        j \in 0..MaxEdge, k \in 0..MaxMid, l \in 0..MaxEdge}
    \cup {Copies(PhoneB, (MaxBatches - 1) * batch_size + 1)}

InitBatch ==
    /\ phone_numbers \in ListInputs
    /\ loop_i = 0 /\ group_index = 0 /\ group_letter = <<>>
    /\ files_created = <<>> /\ returned = FALSE
IdleBatch ==
    /\ phone_numbers = <<>>
    /\ loop_i = 0 /\ group_index = 0 /\ group_letter = <<>>
    /\ files_created = <<>> /\ returned = FALSE
InitEnvBatch == property_reference_code = TXVanZandt /\ today = [year |-> 2026, month |-> 11, day |-> 3]

\* One iteration of the loop over range(0, len(phone_numbers), batch_size).
BatchIteration ==
    /\ ~returned
    /\ loop_i < ListLen(phone_numbers)
    /\ LET batch == BatchAt(phone_numbers, loop_i)
           index == loop_i \div batch_size
           letter == GroupLetter(index)
           filename == generate_slybroadcast_filename(property_reference_code, letter, today)
       IN  /\ group_index' = index
           /\ group_letter' = letter
           /\ files_created' = DictSet(files_created, filename, to_csv(batch))
    /\ loop_i' = loop_i + batch_size
    /\ UNCHANGED <<phone_numbers, returned, phoneVars, nameVars, envVars, fileVars, pipeVars, mainVars>>

\* The loop is over: return files_created.
BatchReturn ==
    /\ ~returned
    /\ loop_i >= ListLen(phone_numbers)
    /\ returned' = TRUE
    /\ UNCHANGED <<phone_numbers, loop_i, group_index, group_letter, files_created,
                   phoneVars, nameVars, envVars, fileVars, pipeVars, mainVars>>

(***************************************************************************)
(* process_phone_data.  A DataFrame is its columns, in order, and its      *)
(* rows, each a function from the column names to values.                  *)
(***************************************************************************)
DataFrame(columns, rows) == [columns |-> columns, rows |-> rows]
\* pd.DataFrame()
EmptyDataFrame == DataFrame(<<>>, <<>>)
\* A row of these columns with these values.
MakeRow(columns, values) == [c \in Range(columns) |-> values[IndexOf(columns, c)]]
\* df[columns]
SelectColumns(frame, columns) ==
    DataFrame(columns, [k \in DOMAIN frame.rows |-> [c \in Range(columns) |-> frame.rows[k][c]]])
\* df[mask], mask a sequence of booleans, one for each row.
RECURSIVE MaskedFrom(_, _, _)
MaskedFrom(rows, mask, k) ==
    IF k > Len(rows) THEN <<>>
    ELSE (IF mask[k] THEN <<rows[k]>> ELSE <<>>) \o MaskedFrom(rows, mask, k + 1)
FilterRows(frame, mask) == DataFrame(frame.columns, MaskedFrom(frame.rows, mask, 1))

required_columns ==
    <<"Matched First Name", "Matched Last Name", "Phone1", "Phone1 Type", "Phone2", "Phone2 Type">>
selected_columns == required_columns \o <<"Matched First Name2", "Matched Last Name2">>
stacked_columns == <<"First Name", "Last Name", "Phone", "Phone Type">>
final_columns == <<"First Name", "Last Name", "Phone">>

\* Series.str.contains(pat, case=True) of one value: pat is in s as written.
ContainsCaseSensitive(s, pat) ==
    \E k \in 0..(Len(s) - Len(pat)) : \A j \in DOMAIN pat : s[k + j] = pat[j]
\* Series.str.contains(pat, case=False) of one value, pat having no regex
\* operator: pat is in s, letter case apart.
ContainsIgnoreCase(s, pat) ==
    \E k \in 0..(Len(s) - Len(pat)) : \A j \in DOMAIN pat : ToLower(s[k + j]) = ToLower(pat[j])

\* One value of df["DNC/Litigator Scrub"].astype(str).str.contains("DNC", case=False, na=False)
HasDNC(row) == ContainsIgnoreCase(ToStr(row["DNC/Litigator Scrub"]), <<"D", "N", "C">>)

\* Step 3 on one row: both names capitalized, then copied for Phone2.
CapitalizeAndDuplicate(row) ==
    LET first == PyStr(clean_name_capitalization(row["Matched First Name"]))
        last == PyStr(clean_name_capitalization(row["Matched Last Name"]))
    IN  [c \in Range(selected_columns) |->
            CASE c \in {"Matched First Name", "Matched First Name2"} -> first
              [] c \in {"Matched Last Name", "Matched Last Name2"} -> last
              [] OTHER -> row[c]]

\* The test of step 4 without its comparison with "0".
IsPopulatedAnyNumber(v) == pd_notna(v) /\ ~IsEmptyStr(v)
\* pd.notna(v) and v != "" and str(v) != "0"
IsPopulated(v) == pd_notna(v) /\ ~IsEmptyStr(v) /\ ToStr(v) # <<"0">>

\* The rows step 4 appends for one row of df_selected: Phone1's, then Phone2's.
StackRow(row) ==
    (IF IsPopulated(row["Phone1"])
     THEN <<MakeRow(stacked_columns,
                    <<row["Matched First Name"], row["Matched Last Name"], row["Phone1"],
                      IF pd_notna(row["Phone1 Type"]) THEN row["Phone1 Type"] ELSE PyStr(<<>>)>>)>>
     ELSE <<>>)
    \o
    (IF IsPopulated(row["Phone2"])
     THEN <<MakeRow(stacked_columns,
                    <<row["Matched First Name2"], row["Matched Last Name2"], row["Phone2"],
                      IF pd_notna(row["Phone2 Type"]) THEN row["Phone2 Type"] ELSE PyStr(<<>>)>>)>>
     ELSE <<>>)
\* phone_data after the loop over rows k..
RECURSIVE StackRows(_, _)
StackRows(rows, k) == IF k > Len(rows) THEN <<>> ELSE StackRow(rows[k]) \o StackRows(rows, k + 1)

\* str.lower()
Lower(s) == [k \in DOMAIN s |-> ToLower(s[k])]
\* The comparison of step 5 without the lowercasing.
IsMobileAsWritten(row) == ToStr(row["Phone Type"]) = <<"m", "o", "b", "i", "l", "e">>
\* One value of stacked_df['Phone Type'].astype(str).str.lower() == 'mobile'
IsMobile(row) == Lower(ToStr(row["Phone Type"])) = <<"m", "o", "b", "i", "l", "e">>

\* The source tables tried.  A record has a DNC flag, a pair of names and two
\* phone slots (a phone and its type).  Every table of one record is tried,
\* and every table of up to MaxRecords records of the core values.
MaxRecords == 2
source_columns ==
    <<"Mailing City", "DNC/Litigator Scrub", "Matched First Name", "Matched Last Name",
      "Phone1", "Phone1 Type", "Phone2", "Phone2 Type">>
Dallas == PyStr(<<"D", "a", "l", "l", "a", "s">>)
Mobile == PyStr(<<"M", "o", "b", "i", "l", "e">>)
MOBILE == PyStr(<<"M", "O", "B", "I", "L", "E">>)
mobile == PyStr(<<"m", "o", "b", "i", "l", "e">>)
Landline == PyStr(<<"L", "a", "n", "d", "l", "i", "n", "e">>)
FlagDNC == PyStr(<<"L", "i", "t", "i", "g", "a", "t", "o", "r", "/", "d", "N", "c">>)
Formatted2142645033 == PyStr(<<"(", "2", "1", "4", ")", " ", "2", "6", "4", "-", "5", "0", "3", "3">>)
Int13364024962 == PyInt(FALSE, <<1, 3, 3, 6, 4, 0, 2, 4, 9, 6, 2>>)
CoreFlags == {PyNaN, FlagDNC}
Flags == CoreFlags \cup {PyStr(<<"D", "N", "C">>), PyStr(<<"D", "N", " ", "C">>), PyStr(<<"C", "l", "e", "a", "n">>)}
NamePairs ==
    {<<PyStr(mcdonald), PyNaN>>,
     <<PyStr(<<" ", "o", "'", "b", "r", "i", "e", "n", " ">>), PyStr(<<"S", "M", "I", "T", "H">>)>>}
CoreSlots == {<<PyNaN, Mobile>>, <<Formatted2142645033, MOBILE>>, <<Int13364024962, Landline>>}
Slots ==
    CoreSlots \cup
    {<<PyStr(<<>>), Mobile>>,
     <<PyStr(<<"0">>), Mobile>>,
     <<PyInt(FALSE, <<0>>), Mobile>>,
     <<PyFloat(FALSE, <<0>>, <<>>), Mobile>>,
     <<PyFloat(FALSE, <<9, 7, 2, 5, 5, 5, 0, 1, 4, 7>>, <<>>), mobile>>,
     <<PyStr(<<"1", "2", "3">>), Mobile>>,
     <<PyInf(FALSE), Mobile>>,
     <<PyStr(PhoneC), PyNaN>>,
     <<PyStr(PhoneC), PyStr(<<>>)>>,
     <<PyStr(PhoneC), PyStr(<<"M", "o", "b", "i", "l", "e", " ">>)>>}
SourceRow(flag, names, slot1, slot2) ==
    MakeRow(source_columns,
            <<Dallas, flag, names[1], names[2], slot1[1], slot1[2], slot2[1], slot2[2]>>)
Records == {SourceRow(f, n, s1, s2) : f \in Flags, n \in NamePairs, s1 \in Slots, s2 \in Slots}
CoreRecords == {SourceRow(f, n, s1, s2) : f \in CoreFlags, n \in NamePairs, s1 \in CoreSlots, s2 \in CoreSlots}
RowInputs ==
    {<<r>> : r \in Records} \cup UNION {[1..n -> CoreRecords] : n \in 0..MaxRecords}

InitPipe ==
    /\ df \in {DataFrame(source_columns, rows) : rows \in RowInputs}
    /\ df_filtered = EmptyDataFrame /\ df_selected = EmptyDataFrame
    /\ stacked_df = EmptyDataFrame /\ mobile_df = EmptyDataFrame /\ final_df = EmptyDataFrame
    /\ pc = "step1" /\ processed_df = EmptyDataFrame
IdlePipe ==
    /\ df = EmptyDataFrame
    /\ df_filtered = EmptyDataFrame /\ df_selected = EmptyDataFrame
    /\ stacked_df = EmptyDataFrame /\ mobile_df = EmptyDataFrame /\ final_df = EmptyDataFrame
    /\ pc = "idle" /\ processed_df = EmptyDataFrame

NotPipe == <<phoneVars, nameVars, envVars, fileVars, batchVars, mainVars>>

\* Step 1: delete the rows whose "DNC/Litigator Scrub" contains "DNC".  On a
\* table without that column df["DNC/Litigator Scrub"] raises KeyError.
Step1 ==
    /\ pc = "step1"
    /\ IF "DNC/Litigator Scrub" \notin Range(df.columns)
       THEN pc' = "raised" /\ UNCHANGED df_filtered
       ELSE /\ df_filtered' = FilterRows(df, [k \in DOMAIN df.rows |-> ~HasDNC(df.rows[k])])
            /\ pc' = "step2"
    /\ UNCHANGED <<df, df_selected, stacked_df, mobile_df, final_df, processed_df, NotPipe>>

\* Step 2: keep the required columns, or return an empty table when one is missing.
Step2 ==
    /\ pc = "step2"
    /\ LET missing_columns == SelectSeq(required_columns, LAMBDA col : col \notin Range(df_filtered.columns))
       IN  IF missing_columns # <<>>
           THEN /\ processed_df' = EmptyDataFrame
                /\ pc' = "returned"
                /\ UNCHANGED df_selected
           ELSE /\ df_selected' = SelectColumns(df_filtered, required_columns)
                /\ pc' = "step3"
                /\ UNCHANGED processed_df
    /\ UNCHANGED <<df, df_filtered, stacked_df, mobile_df, final_df, NotPipe>>

\* Step 3: capitalize the names and copy them for Phone2.
Step3 ==
    /\ pc = "step3"
    /\ df_selected' = DataFrame(selected_columns,
                                [k \in DOMAIN df_selected.rows |-> CapitalizeAndDuplicate(df_selected.rows[k])])
    /\ pc' = "step4"
    /\ UNCHANGED <<df, df_filtered, stacked_df, mobile_df, final_df, processed_df, NotPipe>>

\* Step 4: stack the phone slots, and return an empty table when there is none.
Step4 ==
    /\ pc = "step4"
    /\ LET phone_data == StackRows(df_selected.rows, 1)
       IN  /\ stacked_df' = IF phone_data = <<>> THEN EmptyDataFrame
                            ELSE DataFrame(stacked_columns, phone_data)
           /\ IF phone_data = <<>>
              THEN processed_df' = EmptyDataFrame /\ pc' = "returned"
              ELSE pc' = "step5" /\ UNCHANGED processed_df
    /\ UNCHANGED <<df, df_filtered, df_selected, mobile_df, final_df, NotPipe>>

\* Step 5: keep the rows of type "mobile", and return an empty table when there is none.
Step5 ==
    /\ pc = "step5"
    /\ mobile_df' = FilterRows(stacked_df, [k \in DOMAIN stacked_df.rows |-> IsMobile(stacked_df.rows[k])])
    /\ IF mobile_df'.rows = <<>>
       THEN processed_df' = EmptyDataFrame /\ pc' = "returned"
       ELSE pc' = "step6" /\ UNCHANGED processed_df
    /\ UNCHANGED <<df, df_filtered, df_selected, stacked_df, final_df, NotPipe>>

\* Step 6: remove the phone type column.
Step6 ==
    /\ pc = "step6"
    /\ final_df' = SelectColumns(mobile_df, final_columns)
    /\ pc' = "step7"
    /\ UNCHANGED <<df, df_filtered, df_selected, stacked_df, mobile_df, processed_df, NotPipe>>

\* A row with its Phone cleaned.
WithCleanPhone(row) == [row EXCEPT !["Phone"] = PyStr(clean_phone_number(row["Phone"]))]
\* Step 7: clean every phone and drop the rows whose phone came back empty;
\* a phone that makes clean_phone_number raise ends the call.
Step7 ==
    /\ pc = "step7"
    /\ IF \E k \in DOMAIN final_df.rows : clean_phone_number(final_df.rows[k]["Phone"]) = OverflowError
       THEN pc' = "raised" /\ UNCHANGED final_df
       ELSE /\ pc' = "step8"
            /\ LET cleaned == DataFrame(final_columns,
                                        [k \in DOMAIN final_df.rows |-> WithCleanPhone(final_df.rows[k])])
               IN  final_df' = FilterRows(cleaned,
                                          [k \in DOMAIN cleaned.rows |-> ~IsEmptyStr(cleaned.rows[k]["Phone"])])
    /\ UNCHANGED <<df, df_filtered, df_selected, stacked_df, mobile_df, processed_df, NotPipe>>

\* A row with its names capitalized again.
WithCleanNames(row) ==
    [row EXCEPT !["First Name"] = PyStr(clean_name_capitalization(row["First Name"])),
                !["Last Name"] = PyStr(clean_name_capitalization(row["Last Name"]))]
\* Step 8: capitalize the names again and return final_df.
Step8 ==
    /\ pc = "step8"
    /\ final_df' = DataFrame(final_columns, [k \in DOMAIN final_df.rows |-> WithCleanNames(final_df.rows[k])])
    /\ processed_df' = final_df'
    /\ pc' = "returned"
    /\ UNCHANGED <<df, df_filtered, df_selected, stacked_df, mobile_df, NotPipe>>

(***************************************************************************)
(* main: validate the uploaded table, process it, offer the downloads.     *)
(***************************************************************************)
\* required_columns of validate_input_file
input_required_columns ==
    <<"DNC/Litigator Scrub", "Matched First Name", "Matched Last Name",
      "Phone1", "Phone1 Type", "Phone2", "Phone2 Type">>
\* The check with the columns process_phone_data selects, the DNC flag left out.
MissingAmongSelected(frame) ==
    SelectSeq(required_columns, LAMBDA col : col \notin Range(frame.columns))
\* missing_columns of validate_input_file
validate_missing_columns(frame) ==
    SelectSeq(input_required_columns, LAMBDA col : col \notin Range(frame.columns))

\* The messages main and validate_input_file show with st.error.
MissingColumnsError(columns) == [message |-> "Missing required columns", columns |-> columns]
NoMobileError == [message |-> "No mobile phone numbers found after processing", columns |-> <<>>]
ProcessingError == [message |-> "Error processing file", columns |-> <<>>]

\* add_test_numbers_to_roor_ready
Robert == PyStr(<<"R", "o", "b", "e", "r", "t">>)
Dow == PyStr(<<"D", "o", "w">>)
Lauren == PyStr(<<"L", "a", "u", "r", "e", "n">>)
Forbis == PyStr(<<"F", "o", "r", "b", "i", "s">>)
test_records ==
    <<MakeRow(final_columns, <<Robert, Dow, PyStr(PhoneA)>>),
      MakeRow(final_columns, <<Lauren, Forbis, PyStr(PhoneB)>>)>>
add_test_numbers_to_roor_ready(frame) == DataFrame(final_columns, test_records \o frame.rows)

\* add_test_numbers_to_slybroadcast
test_numbers == ListCat(Copies(PhoneA, 1), Copies(PhoneB, 1))
\* The test numbers put after the list.
AddTestNumbersLast(numbers) == ListCat(numbers, test_numbers)
add_test_numbers_to_slybroadcast(numbers) == ListCat(test_numbers, numbers)

\* frame[column].tolist(), from row k on
RECURSIVE tolist(_, _, _)
tolist(frame, column, k) ==
    IF k > Len(frame.rows) THEN <<>>
    ELSE ListCat(Copies(frame.rows[k][column].s, 1), tolist(frame, column, k + 1))

\* The uploads tried: the tables of the pipeline, and for every set of columns
\* a table may lack, tables of no, one and two records.
ColumnChoices ==
    {SelectSeq(source_columns, LAMBDA col : col \in kept) : kept \in SUBSET Range(source_columns)}
SampleRows ==
    LET first == SourceRow(PyNaN, <<PyStr(mcdonald), PyNaN>>,
                           <<Formatted2142645033, MOBILE>>, <<Int13364024962, Landline>>)
        second == SourceRow(FlagDNC, <<PyStr(mcdonald), PyNaN>>,
                            <<PyStr(PhoneC), Mobile>>, <<PyNaN, Mobile>>)
    IN  {<<>>, <<first>>, <<first, second>>}
Uploads ==
    {DataFrame(source_columns, rows) : rows \in RowInputs}
    \cup {SelectColumns(DataFrame(source_columns, rows), columns) :
            rows \in SampleRows, columns \in ColumnChoices}

InitMain ==
    /\ df \in Uploads
    /\ df_filtered = EmptyDataFrame /\ df_selected = EmptyDataFrame
    /\ stacked_df = EmptyDataFrame /\ mobile_df = EmptyDataFrame /\ final_df = EmptyDataFrame
    /\ pc = "idle" /\ processed_df = EmptyDataFrame
    /\ main_pc = "validate" /\ errors = <<>>
    /\ roor_ready_df = EmptyDataFrame /\ processed_phones = <<>>
\* main at the call of add_test_numbers_to_slybroadcast, with a list of numbers
\* a processed table gave (a processed table that gets there has a row).
InitSly ==
    /\ main_pc = "add_test_numbers" /\ errors = <<>>
    /\ roor_ready_df = EmptyDataFrame /\ processed_phones \in ListInputs \ {<<>>}
IdleMain ==
    /\ main_pc = "idle" /\ errors = <<>>
    /\ roor_ready_df = EmptyDataFrame /\ processed_phones = <<>>

\* if validate_input_file(df): a table that lacks a required column gets the
\* error naming the missing columns and nothing else; another is processed.
Validate ==
    /\ main_pc = "validate"
    /\ LET missing == validate_missing_columns(df)
       IN  IF missing # <<>>
           THEN /\ errors' = Append(errors, MissingColumnsError(missing))
                /\ main_pc' = "done"
                /\ UNCHANGED pc
           ELSE /\ main_pc' = "process"
                /\ pc' = "step1"
                /\ UNCHANGED errors
    /\ UNCHANGED <<df, df_filtered, df_selected, stacked_df, mobile_df, final_df, processed_df,
                   roor_ready_df, processed_phones,
                   phoneVars, nameVars, envVars, fileVars, batchVars>>

\* if len(processed_df) > 0: the Roor-Ready download and the list of phones;
\* else: the error, and nothing to download.
Export ==
    /\ main_pc = "process"
    /\ pc = "returned"
    /\ IF Len(processed_df.rows) > 0
       THEN /\ roor_ready_df' = add_test_numbers_to_roor_ready(processed_df)
            /\ roor_filename' = generate_roor_ready_filename(property_reference_code, today)
            /\ processed_phones' = tolist(processed_df, "Phone", 1)
            /\ main_pc' = "add_test_numbers"
            /\ UNCHANGED errors
       ELSE /\ errors' = Append(errors, NoMobileError)
            /\ main_pc' = "done"
            /\ UNCHANGED <<roor_ready_df, roor_filename, processed_phones>>
    /\ UNCHANGED <<letter_arg, sly_filename, phoneVars, nameVars, envVars, batchVars, pipeVars>>

\* slybroadcast_phone_numbers = add_test_numbers_to_slybroadcast(phone_numbers),
\* passed to create_slybroadcast_files.
AddTestNumbers ==
    /\ main_pc = "add_test_numbers"
    /\ phone_numbers' = add_test_numbers_to_slybroadcast(processed_phones)
    /\ main_pc' = "slybroadcast"
    /\ UNCHANGED <<loop_i, group_index, group_letter, files_created, returned,
                   errors, roor_ready_df, processed_phones,
                   phoneVars, nameVars, envVars, fileVars, pipeVars>>

\* create_slybroadcast_files as main calls it.
SlyIteration == main_pc = "slybroadcast" /\ BatchIteration
SlyReturn == main_pc = "slybroadcast" /\ BatchReturn

\* except Exception: the error, and nothing to download.
HandleException ==
    /\ main_pc = "process"
    /\ pc = "raised"
    /\ errors' = Append(errors, ProcessingError)
    /\ main_pc' = "done"
    /\ UNCHANGED <<roor_ready_df, processed_phones,
                   phoneVars, nameVars, envVars, fileVars, batchVars, pipeVars>>

(***************************************************************************)
(* Specifications                                                          *)
(***************************************************************************)
StartPhone == InitPhone /\ IdleName /\ IdleEnv /\ IdleFile /\ IdleBatch /\ IdlePipe /\ IdleMain
SpecPhone == StartPhone /\ [][CleanPhone]_vars
StartName == InitName /\ IdlePhone /\ IdleEnv /\ IdleFile /\ IdleBatch /\ IdlePipe /\ IdleMain
SpecName == StartName /\ [][Normalize \/ Renormalize]_vars
StartFile == InitEnv /\ InitFile /\ IdlePhone /\ IdleName /\ IdleBatch /\ IdlePipe /\ IdleMain
SpecFile == StartFile /\ [][GenerateRoor \/ GenerateSly]_vars
StartBatch == InitBatch /\ InitEnvBatch /\ IdlePhone /\ IdleName /\ IdleFile /\ IdlePipe /\ IdleMain
SpecBatch == StartBatch /\ [][BatchIteration \/ BatchReturn]_vars
Init == InitPipe /\ IdlePhone /\ IdleName /\ IdleEnv /\ IdleFile /\ IdleBatch /\ IdleMain
Next == Step1 \/ Step2 \/ Step3 \/ Step4 \/ Step5 \/ Step6 \/ Step7 \/ Step8
Spec == Init /\ [][Next]_vars
StartSly == InitSly /\ InitEnvBatch /\ IdleBatch /\ IdlePhone /\ IdleName /\ IdleFile /\ IdlePipe
SpecSly == StartSly /\ [][AddTestNumbers \/ SlyIteration \/ SlyReturn]_vars
StartMain == InitMain /\ InitEnvBatch /\ IdleBatch /\ IdlePhone /\ IdleName /\ IdleFile
NextMain ==
    \/ Validate
    \/ Step1 \/ Step2 \/ Step3 \/ Step4 \/ Step5 \/ Step6 \/ Step7 \/ Step8
    \/ Export \/ HandleException
    \/ AddTestNumbers \/ SlyIteration \/ SlyReturn
SpecMain == StartMain /\ [][NextMain]_vars

(***************************************************************************)
(* Properties of clean_phone_number                                        *)
(***************************************************************************)
AllDigits(s) == \A i \in DOMAIN s : IsDigit(s[i])

\* C1: whatever the argument (missing, empty, a number, a string),
\* clean_phone_number returns the empty string or exactly 10 digits.
C1_EmptyOrTenDigits ==
    phone_result # Pending =>
        \/ phone_result = <<>>
        \/ Len(phone_result) = 10 /\ AllDigits(phone_result)

\* The same of every argument but float infinity, where int() raises.
PhoneFiniteEmptyOrTenDigits == phone.t # "inf" => C1_EmptyOrTenDigits

\* The digits of the argument as the claim reads them: of its text, a number
\* being written as an integer.
ClaimDigits(v) == SelectSeq(IF v.t \in {"int", "float"} THEN IntStr(v) ELSE ToStr(v), IsDigit)
ClaimResult(d) ==
    CASE Len(d) = 10 -> d
      [] Len(d) = 11 /\ d[1] = "1" -> SubSeq(d, 2, 11)
      [] Len(d) = 11 /\ d[1] # "1" /\ d[11] = "0" -> SubSeq(d, 1, 10)
      [] OTHER -> <<>>

\* C2: for every argument that is not missing, with d its digits, the result
\* is d when d has 10 digits, d without a leading "1" or else without a
\* trailing "0" when it has 11, and the empty string otherwise.
C2_LengthRules ==
    (phone_result # Pending /\ pd_notna(phone)) => phone_result = ClaimResult(ClaimDigits(phone))

\* The same of every argument but float infinity.
PhoneFiniteLengthRules == phone.t # "inf" => C2_LengthRules

(***************************************************************************)
(* Properties of clean_name_capitalization                                 *)
(***************************************************************************)
\* A word of s starts at i with the prefix "mc", in any case, and a letter.
McWordAt(s, i) ==
    /\ i + 2 <= Len(s)
    /\ i = 1 \/ ~IsWord(s[i - 1])
    /\ ToLower(s[i]) = "m" /\ ToLower(s[i + 1]) = "c" /\ IsCased(s[i + 2])

\* C3: a word that begins with "mc" and a letter comes back as "Mc", that
\* letter in uppercase; "mcdonald" comes back as "McDonald".
C3_McKeepsCapital ==
    (name_once # Pending /\ name.t = "str") =>
        LET s == Strip(name.s)
        IN  /\ Len(name_once) = Len(s)
            /\ \A i \in DOMAIN s :
                  McWordAt(s, i) => SubSeq(name_once, i, i + 2) = <<"M", "c", ToUpper(s[i + 2])>>
            /\ name.s = mcdonald => name_once = McDonald

RECURSIVE ClaimCode(_)
ClaimCode(code) ==
    IF code = <<>> THEN <<>>
    ELSE (IF Head(code) \in {"<", ">", ":", "\"", "/", "\\", "|", "?", "*"} THEN <<>>
          ELSE IF Head(code) = " " THEN <<"_">>
          ELSE <<Head(code)>>) \o ClaimCode(Tail(code))

\* The number a string of ASCII digits writes.
RECURSIVE DigitsValue(_)
DigitsValue(s) ==
    IF s = <<>> THEN 0 ELSE 10 * DigitsValue(SubSeq(s, 1, Len(s) - 1)) + (IndexOf(AsciiDigits, s[Len(s)]) - 1)

StartsWithDate(f) ==
    /\ Len(f) >= 9
    /\ \A i \in 1..8 : IsAsciiDigit(f[i])
    /\ DigitsValue(SubSeq(f, 1, 4)) = today.year
    /\ DigitsValue(SubSeq(f, 5, 6)) = today.month
    /\ DigitsValue(SubSeq(f, 7, 8)) = today.day
    /\ f[9] = "_"
EndsWith(f, suffix) ==
    Len(f) >= Len(suffix) /\ SubSeq(f, Len(f) - Len(suffix) + 1, Len(f)) = suffix
\* What f holds between the date and its underscore and a suffix.
Embedded(f, suffix) == SubSeq(f, 10, Len(f) - Len(suffix))
Contains(f, part) == \E i \in 1..(Len(f) - Len(part) + 1) : SubSeq(f, i, i + Len(part) - 1) = part
NoInvalidNoSpace(f) ==
    \A i \in DOMAIN f : f[i] \notin {"<", ">", ":", "\"", "/", "\\", "|", "?", "*", " "}

FilenameAsClaimed(f, suffix) ==
    /\ StartsWithDate(f)
    /\ EndsWith(f, suffix)
    /\ Embedded(f, suffix) = ClaimCode(property_reference_code)
    /\ NoInvalidNoSpace(f)
    /\ property_reference_code = TXVanZandt =>
          Contains(f, <<"T", "X", "_", "V", "a", "n", "Z", "a", "n", "d", "t", "2", "0", "2", "5">>)

\* C10: both names begin with the date as YYYYMMDD, end with the suffix of
\* their kind and hold the reference code between, its invalid characters
\* removed and its spaces replaced by underscores: no invalid character and
\* no space is left in the name.
C10_Filenames ==
    /\ roor_filename # Pending =>
          FilenameAsClaimed(roor_filename,
              <<"_", "R", "o", "o", "r", "-", "R", "e", "a", "d", "y", ".", "c", "s", "v">>)
    /\ sly_filename # Pending =>
          FilenameAsClaimed(sly_filename,
              <<"_", "S", "l", "y", "b", "r", "o", "a", "d", "c", "a", "s", "t", "-",
                "R", "e", "a", "d", "y", "_", "G", "r", "o", "u", "p">> \o letter_arg \o <<".", "c", "s", "v">>)

\* Both names were built from a code that has an invalid character and a space.
C10_Witness ==
    /\ roor_filename # Pending /\ sly_filename # Pending
    /\ property_reference_code = TXVanZandt
    /\ letter_arg = <<"A", "B">>

(***************************************************************************)
(* Properties of create_slybroadcast_files                                 *)
(***************************************************************************)
\* The numbers a file's content lists: each line without its line feed.
ParseCsv(content) ==
    [k \in DOMAIN content |-> Run(SubSeq(content[k].v, 1, Len(content[k].v) - 1), content[k].n)]
LinesEndInLineFeed(content) ==
    \A k \in DOMAIN content : content[k].v # <<>> /\ content[k].v[Len(content[k].v)] = "\n"
\* The contents of the files lo..hi, in the order of the batches.
RECURSIVE NumbersBetween(_, _, _)
NumbersBetween(files, lo, hi) ==
    IF lo > hi THEN <<>>
    ELSE IF lo = hi THEN ParseCsv(files[lo].csv_content)
    ELSE LET mid == (lo + hi) \div 2
         IN  ListCat(NumbersBetween(files, lo, mid), NumbersBetween(files, mid + 1, hi))
NumbersOfFiles(files) == NumbersBetween(files, 1, Len(files))
FileSize(file) == ListLen(file.csv_content)

\* C8: a list of n numbers gives ceil(n / 250) files, none overwritten; every
\* file holds at most 250 numbers and every file but the last exactly 250;
\* the files' contents, in the order of the batches, are the list itself.
C8_Batches ==
    /\ \A k \in DOMAIN files_created :
          /\ FileSize(files_created[k]) <= 250
          /\ k < Len(files_created) => FileSize(files_created[k]) = 250
          /\ LinesEndInLineFeed(files_created[k].csv_content)
    /\ NumbersOfFiles(files_created) = ListTake(phone_numbers, loop_i)
    /\ returned =>
          /\ Len(files_created) = (ListLen(phone_numbers) + 249) \div 250
          /\ NumbersOfFiles(files_created) = phone_numbers

\* 600 numbers, of three kinds, were split into files of 250, 250 and 100.
C8_Witness ==
    /\ returned
    /\ ListLen(phone_numbers) = 600 /\ Len(phone_numbers) = 3
    /\ Len(files_created) = 3
    /\ FileSize(files_created[1]) = 250
    /\ FileSize(files_created[2]) = 250
    /\ FileSize(files_created[3]) = 100

\* The k-th label, from 0, of "A", ..., "Z", "AA", "AB", ...: every string of
\* capital letters, the shorter first.
RECURSIVE IthLabel(_)
IthLabel(k) ==
    IF k < 26 THEN <<Uppercase[k + 1]>>
    ELSE IthLabel((k \div 26) - 1) \o <<Uppercase[(k % 26) + 1]>>
OnlyCapitals(label) == label # <<>> /\ \A k \in DOMAIN label : IsUpper(label[k])
\* The label a file's name carries: what stands between "Group" and ".csv".
LabelOf(filename) ==
    SubSeq(filename,
           Len(generate_slybroadcast_filename(property_reference_code, <<>>, today)) - 3,
           Len(filename) - 4)
\* The file of the last iteration carries that iteration's label, and no
\* earlier file carries it.
NewestLabelIsNew ==
    /\ files_created # <<>>
    /\ LabelOf(files_created[Len(files_created)].filename) = group_letter
    /\ \A k \in 1..(Len(files_created) - 1) : LabelOf(files_created[k].filename) # group_letter

\* C9 as claimed: whatever the length of the list, the batch with index i is
\* labelled with the i-th of "A", ..., "Z", "AA", "AB", ..., a label of capital
\* letters only, and no two batches share a label.
C9_LabelsAnyLength ==
    loop_i > 0 =>
        /\ group_letter = IthLabel(group_index)
        /\ OnlyCapitals(group_letter)
        /\ NewestLabelIsNew

\* C9 as amended: the same of the batches with an index below 702, the 26 +
\* 26 * 26 labels of one and two letters; no two batches share a label
\* whatever the length.
TwoLetterLabels == 26 + 26 * 26
C9_LabelsBelow702 ==
    loop_i > 0 =>
        /\ group_index < TwoLetterLabels =>
              group_letter = IthLabel(group_index) /\ OnlyCapitals(group_letter)
        /\ NewestLabelIsNew

\* The last batch with a two-letter label was labelled.
C9_Witness ==
    /\ loop_i > 0
    /\ group_index = 701
    /\ group_letter = <<"Z", "Z">>
    /\ Len(files_created) = 702

(***************************************************************************)
(* Properties of process_phone_data                                        *)
(***************************************************************************)
\* A phone slot the claim counts as filled: present, not empty and not "0",
\* the zero a column of integers holds being written "0".
ClaimSlotFilled(v) ==
    /\ v.t # "nan"
    /\ v # PyStr(<<>>)
    /\ v # PyStr(<<"0">>)
    /\ v # PyInt(FALSE, <<0>>)
ClaimEmits(record) ==
    (IF ClaimSlotFilled(record["Phone1"]) THEN 1 ELSE 0)
    + (IF ClaimSlotFilled(record["Phone2"]) THEN 1 ELSE 0)
\* The rows the records before the k-th emit.
RECURSIVE ClaimRowsBefore(_, _)
ClaimRowsBefore(records, k) ==
    IF k <= 1 THEN 0 ELSE ClaimRowsBefore(records, k - 1) + ClaimEmits(records[k - 1])
\* The stacked row at position p is this record's, for this slot.
ClaimRowIs(p, record, slot) ==
    /\ p \in DOMAIN stacked_df.rows
    /\ stacked_df.rows[p]["Phone"] = record[slot]
    /\ stacked_df.rows[p]["First Name"] = PyStr(clean_name_capitalization(record["Matched First Name"]))
    /\ stacked_df.rows[p]["Last Name"] = PyStr(clean_name_capitalization(record["Matched Last Name"]))
StackingDone == pc \in {"step5", "step6", "step7", "step8", "returned", "raised"}

\* C5: the stacking step emits, for the records in their order, one row for
\* each filled phone slot (present, not empty, not "0") and none for another:
\* Phone1's row before Phone2's, both with the record's normalized names, the
\* rows of an earlier record before those of a later one.
C5_Stacking ==
    StackingDone =>
        LET records == df_filtered.rows
        IN  /\ Len(stacked_df.rows) = ClaimRowsBefore(records, Len(records) + 1)
            /\ \A k \in DOMAIN records :
                  LET before == ClaimRowsBefore(records, k)
                      one == ClaimSlotFilled(records[k]["Phone1"])
                      two == ClaimSlotFilled(records[k]["Phone2"])
                  IN  /\ one => ClaimRowIs(before + 1, records[k], "Phone1")
                      /\ two => ClaimRowIs(before + (IF one THEN 2 ELSE 1), records[k], "Phone2")

\* Two records were stacked: the first filled both slots, the second only
\* Phone2, which gave three rows.
C5_Witness ==
    /\ pc = "step5"
    /\ Len(df_filtered.rows) = 2
    /\ ClaimEmits(df_filtered.rows[1]) = 2
    /\ pd_isna(df_filtered.rows[2]["Phone1"])
    /\ df_filtered.rows[1]["Matched First Name"] # df_filtered.rows[2]["Matched First Name"]
    /\ Len(stacked_df.rows) = 3

\* A flag the claim drops the record for: a text with "DNC" in it, in any case.
ClaimFlagged(v) ==
    /\ v.t = "str"
    /\ \E k \in 1..(Len(v.s) - 2) :
          /\ v.s[k] \in {"d", "D"}
          /\ v.s[k + 1] \in {"n", "N"}
          /\ v.s[k + 2] \in {"c", "C"}

\* C6: step 1 drops exactly the records whose flag contains "DNC" in any
\* case, keeping one whose flag is missing; it filters the table with all of
\* its source columns, before any is projected away.
C6_DncFilter ==
    pc \notin {"idle", "step1"} =>
        /\ df_filtered.rows = SelectSeq(df.rows, LAMBDA record : ~ClaimFlagged(record["DNC/Litigator Scrub"]))
        /\ df_filtered.columns = df.columns
        /\ pc = "step2" => df_selected = EmptyDataFrame

\* Of two records, the one flagged "Litigator/dNc" was dropped and the one
\* with no flag kept, before the projection.
C6_Witness ==
    /\ pc = "step2"
    /\ Len(df.rows) = 2
    /\ df.rows[1]["DNC/Litigator Scrub"] = FlagDNC
    /\ pd_isna(df.rows[2]["DNC/Litigator Scrub"])
    /\ df_filtered.rows = <<df.rows[2]>>
    /\ "Mailing City" \in Range(df_filtered.columns)

\* A type the claim retains: "mobile" in any letter case, and nothing else.
ClaimMobile(v) ==
    /\ v.t = "str"
    /\ v.s \in {<<m, o, b, i, l, e>> : m \in {"m", "M"}, o \in {"o", "O"}, b \in {"b", "B"},
                                        i \in {"i", "I"}, l \in {"l", "L"}, e \in {"e", "E"}}

\* C7: the type filter retains exactly the stacked rows whose type is
\* "mobile" in any letter case, in their order; a row of another type, or of
\* a missing or empty type, is excluded.
C7_TypeFilter ==
    pc \in {"step6", "step7", "step8", "returned", "raised"} =>
        mobile_df.rows = SelectSeq(stacked_df.rows, LAMBDA row : ClaimMobile(row["Phone Type"]))

\* Of four stacked rows, the two of type "MOBILE" were retained and the two
\* of type "Landline" excluded.
C7_Witness ==
    /\ pc = "step6"
    /\ Len(stacked_df.rows) = 4
    /\ stacked_df.rows[1]["Phone Type"] = Landline
    /\ stacked_df.rows[2]["Phone Type"] = MOBILE
    /\ mobile_df.rows = <<stacked_df.rows[2], stacked_df.rows[3]>>

\* Every row process_phone_data returns has a Phone of exactly 10 digits.
ReturnedPhonesTenDigits ==
    pc = "returned" =>
        \A k \in DOMAIN processed_df.rows :
            LET p == processed_df.rows[k]["Phone"]
            IN  p.t = "str" /\ Len(p.s) = 10 /\ AllDigits(p.s)

\* Step 8 changes no name: the names returned are those step 3 wrote.
ReturnedNamesAsStacked ==
    (pc = "returned" /\ processed_df # EmptyDataFrame) =>
        \A k \in DOMAIN processed_df.rows :
            \E j \in DOMAIN stacked_df.rows :
                /\ processed_df.rows[k]["First Name"] = stacked_df.rows[j]["First Name"]
                /\ processed_df.rows[k]["Last Name"] = stacked_df.rows[j]["Last Name"]

(***************************************************************************)
(* Properties of main                                                      *)
(***************************************************************************)
\* The required columns the uploaded table lacks.
AbsentColumns == {col \in Range(input_required_columns) : col \notin Range(df.columns)}
\* process_phone_data was not called: no table was built from the upload.
NothingProcessed ==
    /\ pc = "idle"
    /\ df_filtered = EmptyDataFrame /\ df_selected = EmptyDataFrame
    /\ stacked_df = EmptyDataFrame /\ mobile_df = EmptyDataFrame
    /\ final_df = EmptyDataFrame /\ processed_df = EmptyDataFrame
\* Nothing is offered for download: no Roor-Ready table or name, no list of
\* numbers, no batch file.
NothingExported ==
    /\ roor_ready_df = EmptyDataFrame /\ roor_filename = Pending
    /\ processed_phones = <<>> /\ phone_numbers = <<>>
    /\ files_created = <<>> /\ ~returned
\* The one error shown names these columns, each once.
NamesExactly(columns) ==
    /\ Len(errors) = 1
    /\ errors[1].message = "Missing required columns"
    /\ Range(errors[1].columns) = columns
    /\ Len(errors[1].columns) = Cardinality(columns)

\* C11: when the uploaded table lacks a required column (whatever the set of
\* columns it lacks, the DNC flag column alone included), the run goes from
\* validation straight to its end with one error, which names exactly the
\* missing columns; no record is processed and no table or file is produced.
C11_MissingColumns ==
    AbsentColumns # {} =>
        /\ main_pc \in {"validate", "done"}
        /\ main_pc = "validate" => errors = <<>>
        /\ main_pc = "done" => NamesExactly(AbsentColumns)
        /\ NothingProcessed
        /\ NothingExported

\* A table of two records that lacks the DNC flag column only was refused.
C11_Witness ==
    /\ main_pc = "done"
    /\ AbsentColumns = {"DNC/Litigator Scrub"}
    /\ Len(df.rows) = 2
    /\ errors = <<MissingColumnsError(<<"DNC/Litigator Scrub">>)>>

\* Several columns missing, the DNC flag column not among them.
C11_SeveralMissing ==
    /\ main_pc = "done"
    /\ AbsentColumns = {"Matched Last Name", "Phone2", "Phone2 Type"}
    /\ errors = <<MissingColumnsError(<<"Matched Last Name", "Phone2", "Phone2 Type">>)>>

\* The numbers of the k-th file.
NumbersOfFile(k) == ParseCsv(files_created[k].csv_content)
\* The real numbers from position from (counted from 0) up to position to.
RealNumbers(from, to) == Slice(processed_phones, from, to)

\* C12: with the two test numbers put before the list, the file of batch "A"
\* is the first file, no other file carries that label, and it holds the two
\* test numbers and then the first real numbers, 248 at most, 250 numbers at
\* most in all; every later file holds real numbers only, the next 250 in
\* their order: the test numbers stand in no other batch, and the real
\* numbers keep their order.
C12_SentinelsInBatchA ==
    (main_pc = "slybroadcast" /\ returned) =>
        /\ files_created # <<>>
        /\ LabelOf(files_created[1].filename) = <<"A">>
        /\ \A k \in 2..Len(files_created) : LabelOf(files_created[k].filename) # <<"A">>
        /\ ListTake(NumbersOfFile(1), 2) = test_numbers
        /\ ListDrop(NumbersOfFile(1), 2) = RealNumbers(0, 248)
        /\ FileSize(files_created[1]) <= 250
        /\ FileSize(files_created[1]) - 2 <= 248
        /\ \A k \in 2..Len(files_created) :
              NumbersOfFile(k) = RealNumbers(248 + (k - 2) * 250, 248 + (k - 1) * 250)
        /\ ListCat(RealNumbers(0, 248), NumbersBetween(files_created, 2, Len(files_created)))
              = processed_phones

\* 249 real numbers: batch "A" is full with 248 of them, the last one is alone
\* in batch "B".
C12_Witness ==
    /\ main_pc = "slybroadcast" /\ returned
    /\ ListLen(processed_phones) = 249
    /\ Len(processed_phones) = 3
    /\ Len(files_created) = 2
    /\ FileSize(files_created[1]) = 250
    /\ FileSize(files_created[2]) = 1

\* process_phone_data is past this step ("returned" and "raised" are past all).
PastStep(n) ==
    pc \in {"returned", "raised"} \cup {<<"step2", "step3", "step4", "step5", "step6", "step7", "step8">>[k] : k \in n..7}
\* clean_phone_number makes a number of ten digits of this phone.
Normalizes(v) ==
    LET cleaned == clean_phone_number(v)
    IN  cleaned # OverflowError /\ Len(cleaned) = 10 /\ AllDigits(cleaned)
\* clean_phone_number raises on this phone.
Overflows(v) == clean_phone_number(v) = OverflowError
\* The four ways a stage leaves no rows.
AllFlagged == PastStep(1) /\ df_filtered.rows = <<>>
NothingStacked == PastStep(4) /\ stacked_df.rows = <<>>
NoMobileRow == PastStep(5) /\ stacked_df.rows # <<>> /\ mobile_df.rows = <<>>
NoPhoneNormalizes ==
    /\ PastStep(7)
    /\ mobile_df.rows # <<>>
    /\ \A k \in DOMAIN mobile_df.rows : ~Normalizes(mobile_df.rows[k]["Phone"])
NoRowsLeft == AllFlagged \/ NothingStacked \/ NoMobileRow \/ NoPhoneNormalizes
\* The stages after the one that left no rows worked on no row.
LaterStagesIdle ==
    /\ AllFlagged => df_selected.rows = <<>>
    /\ NothingStacked => stacked_df = EmptyDataFrame /\ mobile_df = EmptyDataFrame /\ final_df = EmptyDataFrame
    /\ NoMobileRow => mobile_df.rows = <<>> /\ final_df = EmptyDataFrame
    /\ (NoPhoneNormalizes /\ pc = "returned") => final_df.rows = <<>>
\* What the claim says of a run in which a stage left no rows.
EndsEmpty ==
    /\ pc # "raised"
    /\ pc = "returned" => processed_df.rows = <<>>
    /\ LaterStagesIdle
    /\ main_pc \in {"process", "done"}
    /\ main_pc = "done" => pc = "returned" /\ errors = <<NoMobileError>>
    /\ NothingExported

\* C13: when a stage leaves no rows (every record flagged, no phone slot
\* filled, no row of type mobile, or no mobile phone that normalizes),
\* process_phone_data does not raise and returns a table of no records, the
\* later stages work on no row, and the run exports nothing: no Roor-Ready
\* table, no batch file, not even the test numbers alone.
C13_EmptyStage == NoRowsLeft => EndsEmpty

\* The same of the runs in which clean_phone_number does not raise.
C13_EmptyStageNoOverflow ==
    (NoRowsLeft /\ \A k \in DOMAIN mobile_df.rows : ~Overflows(mobile_df.rows[k]["Phone"]))
        => EndsEmpty

\* A run ended with nothing exported after its only mobile phone, "123", did
\* not normalize.
C13_EmptyAfterCleaning ==
    /\ main_pc = "done" /\ pc = "returned"
    /\ NoPhoneNormalizes
    /\ Len(mobile_df.rows) = 1
    /\ mobile_df.rows[1]["Phone"] = PyStr(<<"1", "2", "3">>)
    /\ processed_df.rows = <<>>
    /\ NothingExported
\* Runs ended with nothing exported in each of the three other ways.
C13_EmptyAllFlagged == main_pc = "done" /\ AllFlagged /\ Len(df.rows) = 2 /\ NothingExported
C13_EmptyNothingStacked ==
    main_pc = "done" /\ ~AllFlagged /\ NothingStacked /\ Len(df.rows) = 2 /\ NothingExported
C13_EmptyNoMobile == main_pc = "done" /\ NoMobileRow /\ Len(stacked_df.rows) = 2 /\ NothingExported
====
